---- MODULE Spec2Model ----
(***************************************************************************)
(* Media ingestion and status synchronisation of SpheresGrid.tsx: the      *)
(* upload scheduler (handleFileUpload / processUpload over ApiClient.upload)*)
(* the two polling effects (Poll #1, Poll #2), the merge layer             *)
(* (mergeMediaUpdates) and handleDeleteMedia, as one state machine.        *)
(***************************************************************************)
EXTENDS Integers, Sequences, FiniteSets, TLC

(***************************************************************************)
(* Optional values.  A JavaScript value that may be undefined or null is a *)
(* sequence of length at most one: <<>> is undefined/null, <<v>> is v.     *)
(***************************************************************************)
Undefined == <<>>

Some(v) == <<v>>

IsNullish(x) == x = Undefined

\* a ?? b
Coalesce(a, b) == IF IsNullish(a) THEN b ELSE a

\* a || b on strings: the empty string is falsy too
OrElse(a, b) == IF IsNullish(a) \/ a = Some("") THEN b ELSE a

\* !m.thumbnailUrl
IsFalsy(x) == IsNullish(x) \/ x = Some("")

(***************************************************************************)
(* The data model (lib/types.ts).  A Media record keeps the fields the     *)
(* engine reads or writes; the immutable ones (filename, size, ...) are    *)
(* carried by the spread and never read.                                   *)
(***************************************************************************)
MediaStatus == {"pending", "uploading", "processing", "ready", "error", "deleted"}

UnreadyStatus == {Some("uploading"), Some("processing"), Some("pending")}

Media(id, status, url, thumbnailUrl, duration, width, height, error) ==
  [id |-> id, status |-> status, url |-> url, thumbnailUrl |-> thumbnailUrl,
   duration |-> duration, width |-> width, height |-> height, error |-> error]

DerivedFields == {"url", "thumbnailUrl", "duration", "width", "height"}

(***************************************************************************)
(* mergeMediaUpdates                                                       *)
(***************************************************************************)
\* The object literal of lines 126-135: every merged field is upd.f ?? old.f,
\* everything else is old's (the spread).
MergeFieldsOverwrite(old, upd) ==
  [old EXCEPT !.status = upd.status,
              !.url = upd.url,
              !.thumbnailUrl = upd.thumbnailUrl,
              !.duration = upd.duration,
              !.width = upd.width,
              !.height = upd.height]

\* old.f ?? upd.f: the operands the wrong way round
MergeFieldsKeepOld(old, upd) ==
  [old EXCEPT !.status = Coalesce(old.status, upd.status),
              !.url = Coalesce(old.url, upd.url),
              !.thumbnailUrl = Coalesce(old.thumbnailUrl, upd.thumbnailUrl),
              !.duration = Coalesce(old.duration, upd.duration),
              !.width = Coalesce(old.width, upd.width),
              !.height = Coalesce(old.height, upd.height)]

\* The whole update is applied only when it is complete
MergeFieldsPerRecord(old, upd) ==
  IF \E f \in {"status", "url", "thumbnailUrl", "duration", "width", "height"} :
       IsNullish(upd[f])
  THEN old
  ELSE [old EXCEPT !.status = upd.status, !.url = upd.url,
                   !.thumbnailUrl = upd.thumbnailUrl, !.duration = upd.duration,
                   !.width = upd.width, !.height = upd.height]

MergeFields(old, upd) ==
  [old EXCEPT !.status = Coalesce(upd.status, old.status),
              !.url = Coalesce(upd.url, old.url),
              !.thumbnailUrl = Coalesce(upd.thumbnailUrl, old.thumbnailUrl),
              !.duration = Coalesce(upd.duration, old.duration),
              !.width = Coalesce(upd.width, old.width),
              !.height = Coalesce(upd.height, old.height)]

\* Array.prototype.findIndex on ids; 0 stands for -1
FindIndex(list, id) ==
  IF \E i \in 1..Len(list) : list[i].id = id
  THEN CHOOSE i \in 1..Len(list) :
         /\ list[i].id = id
         /\ \A j \in 1..(i - 1) : list[j].id # id
  ELSE 0

\* One iteration of the for-of loop
\* (variant: the merged object is pushed instead of stored at idx)
MergeOneAppends(list, upd) ==
  LET idx == FindIndex(list, upd.id)
  IN IF idx # 0 THEN Append(list, MergeFields(list[idx], upd)) ELSE list

\* (variant: the merged object is moved to the front of the list)
MergeOneToFront(list, upd) ==
  LET idx == FindIndex(list, upd.id)
  IN IF idx # 0
     THEN [i \in 1..Len(list) |-> IF i = 1 THEN MergeFields(list[idx], upd)
                                  ELSE IF i <= idx THEN list[i - 1] ELSE list[i]]
     ELSE list

\* (variant: an update for an id the list does not hold is pushed)
MergeOneUpserts(list, upd) ==
  LET idx == FindIndex(list, upd.id)
  IN IF idx # 0 THEN [list EXCEPT ![idx] = MergeFields(list[idx], upd)]
     ELSE Append(list, upd)

MergeOne(list, upd) ==
  LET idx == FindIndex(list, upd.id)
  IN IF idx # 0 THEN [list EXCEPT ![idx] = MergeFields(list[idx], upd)] ELSE list

RECURSIVE MergeMediaUpdates(_, _)
MergeMediaUpdates(prev, updates) ==
  IF updates = <<>> THEN prev
  ELSE MergeMediaUpdates(MergeOne(prev, Head(updates)), Tail(updates))

(***************************************************************************)
(* Bounds of the model                                                     *)
(***************************************************************************)
\* Timer callbacks (of both polling effects) that run in a behaviour
MaxRounds == 2

\* The largest count of rounds of a loop the history tells apart
MaxCounted == 6

\* Status requests of the polling effects that fail in a behaviour
MaxPollFailures == 1

\* handleDeleteMedia calls in a behaviour
MaxDeletes == 1

\* Files of a batch whose transport outcomes are left open
MaxFiles == 2

\* Records the initial load put in the collection
MaxLoaded == 1

\* Timer callbacks of a loop awaiting responses at a time, when their number in a
\* behaviour is not bounded
MaxInFlight == 1

\* Records the initial load put in the collection, when only the polling effects run
MaxPollLoaded == 2

\* Timer callbacks that run in a behaviour, when only the polling effects run
MaxPollRounds == 4

(***************************************************************************)
(* State                                                                   *)
(***************************************************************************)
VARIABLES
  mediaItems,         \* useState<Media[]>: the collection, in insertion order
  uploads,            \* useState<UploadState[]>: the per-file tasks
  pollDelayMs,        \* useState(2000)
  missingUrlDelayMs,  \* useState(3000)
  mediaToDelete,      \* useState<Media | null>: Undefined or Some(record)
  filesArray,         \* handleFileUpload: names of the files of the batch
  uploadQueue,        \* handleFileUpload: files not yet started (indices into filesArray)
  concurrent,         \* handleFileUpload: the promises of the current iteration
  activeUploads,      \* handleFileUpload: promises not yet settled
  driver,             \* handleFileUpload: where the handler is suspended
  task,               \* processUpload: per file, its locals and suspension point
  plan,               \* transport: per file, the scripted outcome of each attempt (<<>>: any)
  server,             \* backend: the processing stage of every media id it knows
  timerA, timerB,     \* the pending setTimeout of Poll #1 / Poll #2 (with its closure)
  roundsA, roundsB,   \* timer callbacks of Poll #1 / Poll #2 that are awaiting responses
  deleting,           \* handleDeleteMedia calls awaiting api.deleteMedia
  reported,           \* onError: the messages reported to the parent
  mergeCase,          \* a merge under test: a collection, two updates and the merged results
  hist                \* history: per loop, whether the target set was empty since the last round
                      \* and the rounds fired since it was; whether a merge was given an update
                      \* for a record that was gone; budgets

collVars == <<mediaItems, server>>
uploadVars == <<filesArray, uploadQueue, concurrent, activeUploads, driver, task, plan>>
pollVars == <<pollDelayMs, missingUrlDelayMs, timerA, timerB, roundsA, roundsB>>
deleteVars == <<mediaToDelete, deleting, reported>>
vars == <<mediaItems, uploads, pollDelayMs, missingUrlDelayMs, mediaToDelete,
          filesArray, uploadQueue, concurrent, activeUploads, driver, task, plan,
          server, timerA, timerB, roundsA, roundsB, deleting, reported,
          mergeCase, hist>>

(***************************************************************************)
(* The backend, as the engine observes it through getMediaStatus.  A media *)
(* id the backend knows is at one processing stage; the stages only move   *)
(* forward.  "none" is an id the backend does not know (never issued, or   *)
(* deleted): its status request fails.                                     *)
(***************************************************************************)
Stages == {"none", "pending", "processing", "readyNoThumb", "ready", "error", "deleted"}

StageAfter(stage) ==
  CASE stage = "pending" -> {"processing"}
    [] stage = "processing" -> {"readyNoThumb", "ready", "error"}
    [] stage = "readyNoThumb" -> {"ready"}
    [] OTHER -> {}

\* getMediaStatus: the Media object built from the response (metadata, url, thumbnailUrl)
StageResponse(id, stage) ==
  CASE stage = "pending" ->
         Media(id, Some("pending"), Undefined, Undefined, Undefined, Undefined, Undefined, Undefined)
    [] stage = "processing" ->
         Media(id, Some("processing"), Some("url"), Undefined, Undefined, Undefined, Undefined, Undefined)
    [] stage = "readyNoThumb" ->
         Media(id, Some("ready"), Some("url"), Undefined, Some(9), Some(16), Some(9), Undefined)
    [] stage = "ready" ->
         Media(id, Some("ready"), Some("url"), Some("thumb"), Some(9), Some(16), Some(9), Undefined)
    [] stage = "deleted" ->
         Media(id, Some("deleted"), Undefined, Undefined, Undefined, Undefined, Undefined, Undefined)
    [] OTHER ->
         Media(id, Some("error"), Undefined, Undefined, Undefined, Undefined, Undefined, Some("failed"))

(***************************************************************************)
(* The polling effects.  An effect runs after a render in which one of its *)
(* dependencies (mediaItems, pollDelayMs / missingUrlDelayMs) changed: its *)
(* cleanup clears the pending timer, its body resets the delay or sets a   *)
(* new timer whose closure holds the filtered items.                       *)
(***************************************************************************)
\* items.map(m => m.id)
Ids(items) == [i \in 1..Len(items) |-> items[i].id]

IsUnready(m) == m.status \in UnreadyStatus

IsMissingUrl(m) == m.status = Some("ready") /\ IsFalsy(m.thumbnailUrl)

\* mediaItems.filter(... includes(m.status)), as the ids the timer callback requests
ProcessingMedia(items) == Ids(SelectSeq(items, IsUnready))

\* mediaItems.filter(m => m.status === "ready" && !m.thumbnailUrl)
ItemsMissingUrl(items) == Ids(SelectSeq(items, IsMissingUrl))

\* getNextDelay(current, max = 30000)
GetNextDelay(current) == IF current * 2 < 30000 THEN current * 2 ELSE 30000

\* The closure of a timer callback: the ids it will request and what its finally
\* block computes from the mediaItems of the render that set the timer.
Closure(targets, still, delay) == [targets |-> targets, still |-> still, delay |-> delay]

\* Poll #1 effect body (lines 152-195, up to the setTimeout call)
EffectPoll1(items, delay) ==
  IF ProcessingMedia(items) = <<>>
  THEN [delay |-> 2000, timer |-> Undefined]
  ELSE [delay |-> delay,
        timer |-> Some(Closure(ProcessingMedia(items),
                               \E i \in 1..Len(items) : IsUnready(items[i]), delay))]

\* Poll #2 effect body (lines 206-242, up to the setTimeout call)
EffectPoll2(items, delay) ==
  IF ItemsMissingUrl(items) = <<>>
  THEN [delay |-> 3000, timer |-> Undefined]
  ELSE [delay |-> delay,
        timer |-> Some(Closure(ItemsMissingUrl(items),
                               \E i \in 1..Len(items) : IsMissingUrl(items[i]), delay))]

\* A render after setMediaItems(newItems) (itemsSet), setPollDelayMs(dA) and
\* setMissingUrlDelayMs(dB), followed by the effects whose dependencies changed.
\* A state setter given the value the state already has changes no dependency.
\* orphan: the render follows a merge that was given an update for a record the
\* collection did not hold (kept in the history).
RenderAfter(newItems, itemsSet, dA, dB, orphan) ==
  LET runA == itemsSet \/ dA # pollDelayMs
      runB == itemsSet \/ dB # missingUrlDelayMs
      ea == EffectPoll1(newItems, dA)
      eb == EffectPoll2(newItems, dB)
  IN /\ mediaItems' = newItems
     /\ pollDelayMs' = IF runA THEN ea.delay ELSE dA
     /\ timerA' = IF runA THEN ea.timer ELSE timerA
     /\ missingUrlDelayMs' = IF runB THEN eb.delay ELSE dB
     /\ timerB' = IF runB THEN eb.timer ELSE timerB
     /\ hist' = [hist EXCEPT
                   !.emptiedA = @ \/ ProcessingMedia(newItems) = <<>>,
                   !.emptiedB = @ \/ ItemsMissingUrl(newItems) = <<>>,
                   !.firedA = IF ProcessingMedia(newItems) = <<>> THEN 0 ELSE @,
                   !.firedB = IF ItemsMissingUrl(newItems) = <<>> THEN 0 ELSE @,
                   !.orphan = @ \/ orphan]

Render(newItems, itemsSet, dA, dB) == RenderAfter(newItems, itemsSet, dA, dB, FALSE)

\* Is one of the updates for a record the list does not hold (findIndex gives -1)
HasOrphan(list, updates) ==
  \E i \in 1..Len(updates) : FindIndex(list, updates[i].id) = 0

(***************************************************************************)
(* Sequence helpers                                                        *)
(***************************************************************************)
RemoveAt(seq, k) == [i \in 1..(Len(seq) - 1) |-> IF i < k THEN seq[i] ELSE seq[i + 1]]

\* prev.filter(m => m.id !== id)
\* (variant: the filter keeps the record with the id and drops the others)
WithoutIdInverted(items, id) ==
  LET Keep(m) == m.id = id
  IN SelectSeq(items, Keep)

WithoutId(items, id) ==
  LET Keep(m) == m.id # id
  IN SelectSeq(items, Keep)

(***************************************************************************)
(* Status requests in flight.  A request is waiting, answered with the     *)
(* Media the backend built when it served it, or failed.                   *)
(***************************************************************************)
Waiting == [kind |-> "wait", media |-> Undefined]

Failed == [kind |-> "fail", media |-> Undefined]

Answered(m) == [kind |-> "ok", media |-> Some(m)]

\* What a getMediaStatus(id) call can come back with at this moment
StatusOutcomes(id) ==
  {Failed} \cup (IF server[id] = "none" THEN {} ELSE {Answered(StageResponse(id, server[id]))})

(***************************************************************************)
(* Poll #1: records that are uploading, processing or pending              *)
(***************************************************************************)
\* The setUploads mapper of lines 173-184
MirrorOne(upload, updates) ==
  IF \E i \in 1..Len(updates) : updates[i].id = upload.mediaId
  THEN LET matching == updates[FindIndex(updates, upload.mediaId)]
           newStatus == OrElse(matching.status, upload.status)
       IN [upload EXCEPT !.status = newStatus,
                         !.progress = IF newStatus = Some("ready") THEN 100 ELSE @]
  ELSE upload

MirrorUploads(prev, updates) == [i \in 1..Len(prev) |-> MirrorOne(prev[i], updates)]

\* The count of a loop's rounds since its target set was last empty, as the history
\* keeps it: the delay formula gives the same value for every count above MaxCounted
Counted(n) == IF n < MaxCounted THEN n ELSE MaxCounted

\* Model bound on the timer callbacks: a budget of callbacks for the behaviour
\* (roundsLeft > 0), or no budget and at most -roundsLeft callbacks of a loop
\* awaiting responses at a time (roundsLeft < 0)
MayFire(rounds) ==
  IF hist.roundsLeft >= 0 THEN hist.roundsLeft > 0 ELSE Len(rounds) < -hist.roundsLeft

\* The timer of Poll #1 fires: the callback issues one status request per target
\* and suspends on Promise.all.
TimerFireA ==
  /\ timerA # Undefined
  /\ MayFire(roundsA)
  /\ LET c == timerA[1]
     IN roundsA' = Append(roundsA, [targets |-> c.targets, still |-> c.still,
                                    resp |-> [i \in 1..Len(c.targets) |-> Waiting]])
  /\ timerA' = Undefined
  /\ hist' = [hist EXCEPT !.emptiedA = FALSE, !.roundsLeft = IF @ > 0 THEN @ - 1 ELSE @,
                           !.firedA = Counted(@ + 1)]
  /\ UNCHANGED <<mediaItems, uploads, pollDelayMs, missingUrlDelayMs, mediaToDelete,
                 uploadVars, server, timerB, roundsB, deleting, reported, mergeCase>>

\* One status request of a Poll #1 round is served by the backend, or fails
AnswerA(k, i) ==
  /\ roundsA[k].resp[i].kind = "wait"
  /\ \E out \in StatusOutcomes(roundsA[k].targets[i]) :
       /\ out = Failed => hist.failuresLeft > 0
       /\ roundsA' = [roundsA EXCEPT ![k].resp[i] = out]
       /\ hist' = [hist EXCEPT !.failuresLeft = IF out = Failed THEN @ - 1 ELSE @]
  /\ UNCHANGED <<mediaItems, uploads, pollDelayMs, missingUrlDelayMs, mediaToDelete,
                 uploadVars, server, timerA, timerB, roundsB, deleting, reported,
                 mergeCase>>

\* Promise.all has settled
AllSettledOk(r) == \A i \in 1..Len(r.resp) : r.resp[i].kind = "ok"

AnyRejected(r) == \E i \in 1..Len(r.resp) : r.resp[i].kind = "fail"

\* The updates a Poll #1 round passes to mergeMediaUpdates: all of them when every
\* request succeeded, nothing (the catch block) when Promise.all rejected.
RoundUpdatesA(r) ==
  IF AllSettledOk(r) THEN [i \in 1..Len(r.resp) |-> r.resp[i].media[1]] ELSE <<>>

\* The continuation of Poll #1's timer callback: try / catch / finally
CompleteA(k) ==
  LET r == roundsA[k]
      updates == RoundUpdatesA(r)
      merged == AllSettledOk(r)
  IN /\ AllSettledOk(r) \/ AnyRejected(r)
     /\ uploads' = IF merged THEN MirrorUploads(uploads, updates) ELSE uploads
     /\ RenderAfter(IF merged THEN MergeMediaUpdates(mediaItems, updates) ELSE mediaItems,
                    merged,
                    IF r.still THEN GetNextDelay(pollDelayMs) ELSE 2000,
                    missingUrlDelayMs,
                    HasOrphan(mediaItems, updates))
     /\ roundsA' = RemoveAt(roundsA, k)
     /\ UNCHANGED <<mediaToDelete, uploadVars, server, roundsB, deleting, reported, mergeCase>>

(***************************************************************************)
(* Poll #2: ready records without a thumbnail                              *)
(***************************************************************************)
TimerFireB ==
  /\ timerB # Undefined
  /\ MayFire(roundsB)
  /\ LET c == timerB[1]
     IN roundsB' = Append(roundsB, [targets |-> c.targets, still |-> c.still,
                                    idx |-> 1, cur |-> Waiting, updates |-> <<>>,
                                    failed |-> <<>>])
  /\ timerB' = Undefined
  /\ hist' = [hist EXCEPT !.emptiedB = FALSE, !.roundsLeft = IF @ > 0 THEN @ - 1 ELSE @,
                           !.firedB = Counted(@ + 1)]
  /\ UNCHANGED <<mediaItems, uploads, pollDelayMs, missingUrlDelayMs, mediaToDelete,
                 uploadVars, server, timerA, roundsA, deleting, reported, mergeCase>>

\* The status request the Poll #2 round is awaiting is served, or fails
AnswerB(k) ==
  /\ roundsB[k].cur.kind = "wait"
  /\ \E out \in StatusOutcomes(roundsB[k].targets[roundsB[k].idx]) :
       /\ out = Failed => hist.failuresLeft > 0
       /\ roundsB' = [roundsB EXCEPT ![k].cur = out]
       /\ hist' = [hist EXCEPT !.failuresLeft = IF out = Failed THEN @ - 1 ELSE @]
  /\ UNCHANGED <<mediaItems, uploads, pollDelayMs, missingUrlDelayMs, mediaToDelete,
                 uploadVars, server, timerA, timerB, roundsA, deleting, reported,
                 mergeCase>>

\* The inner try / catch of the for loop: a response is pushed, a failure is logged
\* (variant: the catch pushes an update that marks the record as failed)
CollectBMarksError(r) ==
  IF r.cur.kind = "ok" THEN Append(r.updates, r.cur.media[1])
  ELSE Append(r.updates, Media(r.targets[r.idx], Some("error"), Undefined, Undefined,
                               Undefined, Undefined, Undefined, Undefined))

CollectB(r) ==
  IF r.cur.kind = "ok" THEN Append(r.updates, r.cur.media[1]) ELSE r.updates

\* The ids whose request failed in the round so far (console.error of line 226)
FailedB(r) ==
  IF r.cur.kind = "fail" THEN Append(r.failed, r.targets[r.idx]) ELSE r.failed

\* The Poll #2 callback resumes after its await and requests the next item
NextItemB(k) ==
  LET r == roundsB[k]
  IN /\ r.cur.kind # "wait"
     /\ r.idx < Len(r.targets)
     /\ roundsB' = [roundsB EXCEPT ![k] = [r EXCEPT !.idx = r.idx + 1, !.cur = Waiting,
                                                    !.updates = CollectB(r),
                                                    !.failed = FailedB(r)]]
     /\ UNCHANGED <<mediaItems, uploads, pollDelayMs, missingUrlDelayMs, mediaToDelete,
                    uploadVars, server, timerA, timerB, roundsA, deleting, reported,
                    mergeCase, hist>>

\* The Poll #2 callback resumes after its last await: merge, then finally
CompleteB(k) ==
  LET r == roundsB[k]
      updates == CollectB(r)
      merged == Len(updates) > 0
  IN /\ r.cur.kind # "wait"
     /\ r.idx = Len(r.targets)
     /\ RenderAfter(IF merged THEN MergeMediaUpdates(mediaItems, updates) ELSE mediaItems,
                    merged,
                    pollDelayMs,
                    IF r.still THEN GetNextDelay(missingUrlDelayMs) ELSE 3000,
                    HasOrphan(mediaItems, updates))
     /\ roundsB' = RemoveAt(roundsB, k)
     /\ UNCHANGED <<uploads, mediaToDelete, uploadVars, server, roundsA, deleting,
                    reported, mergeCase>>

(***************************************************************************)
(* The upload scheduler: handleFileUpload and processUpload                *)
(***************************************************************************)
MAX_CONCURRENT_UPLOADS == 5

RETRY_LIMIT == 3

\* mediaId: "" of a task that has no id yet
EmptyId == 0

\* The id POST /media/upload assigns: a fresh one on every call
MediaId(f, attempt) == 10 * f + attempt

\* The Error a failed step of ApiClient.upload throws
ErrorAt(step) ==
  CASE step = "post" -> "API error: upload target"
    [] step = "s3" -> "Upload failed: storage"
    [] OTHER -> "API error: media status"

\* The initial upload state of a file (lines 266-272)
NewUpload(name) ==
  [filename |-> name, progress |-> 0, status |-> Some("uploading"),
   mediaId |-> EmptyId, error |-> Undefined]

\* setUploads(prev => prev.map(u => u.filename === file.name ? {...u, status: "uploading"} : u)),
\* for every file whose processUpload starts in the same synchronous block
MarkUploading(prev, names) ==
  [i \in 1..Len(prev) |->
     IF prev[i].filename \in names THEN [prev[i] EXCEPT !.status = Some("uploading")]
     ELSE prev[i]]

\* The progress callback (lines 293-306)
ReportProgress(prev, name, progress, mediaId) ==
  [i \in 1..Len(prev) |->
     IF prev[i].filename = name
     THEN [prev[i] EXCEPT !.progress = progress,
                          !.mediaId = IF mediaId # EmptyId THEN mediaId ELSE @]
     ELSE prev[i]]

\* Lines 309-315
MarkProcessing(prev, name, mediaId) ==
  [i \in 1..Len(prev) |->
     IF prev[i].filename = name
     THEN [prev[i] EXCEPT !.status = Some("processing"), !.progress = 100,
                          !.mediaId = mediaId]
     ELSE prev[i]]

\* Lines 332-342
ErrorMessage(lastError) ==
  IF lastError = Undefined THEN "Upload failed. Unknown error." ELSE lastError[1]

\* (variant: the mapper without the filename test)
MarkErrorAll(prev, name, lastError) ==
  [i \in 1..Len(prev) |->
     [prev[i] EXCEPT !.status = Some("error"), !.error = Some(ErrorMessage(lastError))]]

MarkError(prev, name, lastError) ==
  [i \in 1..Len(prev) |->
     IF prev[i].filename = name
     THEN [prev[i] EXCEPT !.status = Some("error"), !.error = Some(ErrorMessage(lastError))]
     ELSE prev[i]]

\* processUpload before its loop, and after one pass up to the first await
Queued ==
  [pc |-> "queued", attempts |-> 0, success |-> FALSE, lastError |-> Undefined,
   mediaId |-> EmptyId, failures |-> <<>>]

\* while (!success && attempts < RETRY_LIMIT)
LoopContinuesOffByOne(t) == ~t.success /\ t.attempts <= RETRY_LIMIT

LoopContinues(t) == ~t.success /\ t.attempts < RETRY_LIMIT

\* Does the transport let this step of the file's current attempt succeed (ok) or fail
PlanAllows(f, step, ok) ==
  \/ plan[f] = <<>>
  \/ /\ plan[f] # <<>>
     /\ ok <=> plan[f][task[f].attempts] # step

\* The inner while loop of the concurrency control (lines 350-360): how many files
\* one pass of the outer loop starts
StartCount(queue) ==
  IF Len(queue) < MAX_CONCURRENT_UPLOADS THEN Len(queue) ELSE MAX_CONCURRENT_UPLOADS

\* The handler from the top of the outer while loop to its next await: it starts
\* StartCount files and awaits Promise.race, or leaves the loop and awaits
\* Promise.allSettled.  active: activeUploads when it gets there.
\* (variant: no Promise.allSettled after the outer loop)
DriverPassNoJoin(queue, active) ==
  IF Len(queue) > 0
  THEN [driver |-> "race",
        started |-> {queue[i] : i \in 1..StartCount(queue)},
        queue |-> SubSeq(queue, StartCount(queue) + 1, Len(queue))]
  ELSE [driver |-> "done", started |-> {}, queue |-> queue]

DriverPass(queue, active) ==
  IF Len(queue) > 0
  THEN [driver |-> "race",
        started |-> {queue[i] : i \in 1..StartCount(queue)},
        queue |-> SubSeq(queue, StartCount(queue) + 1, Len(queue))]
  ELSE [driver |-> IF active = {} THEN "done" ELSE "join",
        started |-> {},
        queue |-> queue]

\* processUpload(file) up to its first await: attempts++, mark uploading, POST
BeginAttempt(t) == [t EXCEPT !.pc = "post", !.attempts = @ + 1, !.mediaId = EmptyId]

\* await Promise.race(concurrent).catch(...): the handler resumes when a promise of
\* the current pass settles, whether its file succeeded or not (tk: the tasks then)
RaceSettlesOnSuccessOnly(f, tk) == driver = "race" /\ f \in concurrent /\ tk[f].success

RaceSettles(f, tk) == driver = "race" /\ f \in concurrent

\* The promise of file f settles (tk, ups: the tasks and uploads it leaves): the
\* finally callback removes it from activeUploads, and the handler resumes if the
\* await it is suspended on is thereby settled.
Settle(f, tk, ups) ==
  LET active == activeUploads \ {f}
      resumes == RaceSettles(f, tk)
      pass == DriverPass(uploadQueue, active)
  IN IF resumes
     THEN /\ driver' = pass.driver
          /\ uploadQueue' = pass.queue
          /\ concurrent' = pass.started
          /\ activeUploads' = active \cup pass.started
          /\ task' = [g \in DOMAIN tk |-> IF g \in pass.started THEN BeginAttempt(tk[g]) ELSE tk[g]]
          /\ uploads' = MarkUploading(ups, {filesArray[g] : g \in pass.started})
     ELSE /\ driver' = IF driver = "join" /\ active = {} THEN "done" ELSE driver
          /\ activeUploads' = active
          /\ task' = tk
          /\ uploads' = ups
          /\ UNCHANGED <<uploadQueue, concurrent>>

\* handleFileUpload(event) up to its first await
HandleFileUpload(names, script) ==
  LET n == Len(names)
      pass == DriverPass([f \in 1..n |-> f], {})
  IN /\ driver = "idle"
     /\ filesArray' = names
     /\ plan' = script
     /\ driver' = pass.driver
     /\ uploadQueue' = pass.queue
     /\ concurrent' = pass.started
     /\ activeUploads' = pass.started
     /\ task' = [f \in 1..n |-> IF f \in pass.started THEN BeginAttempt(Queued) ELSE Queued]
     /\ uploads' = MarkUploading(uploads \o [f \in 1..n |-> NewUpload(names[f])],
                                 {names[f] : f \in pass.started})
     /\ UNCHANGED <<mediaItems, pollVars, deleteVars, server, mergeCase, hist>>

\* POST /media/upload returned an upload target: first progress report, then the
\* file is sent to storage
PostSucceeds(f) ==
  LET id == MediaId(f, task[f].attempts)
  IN /\ task[f].pc = "post"
     /\ PlanAllows(f, "post", TRUE)
     /\ task' = [task EXCEPT ![f].pc = "s3", ![f].mediaId = id]
     /\ uploads' = ReportProgress(uploads, filesArray[f], 0, id)
     /\ server' = [server EXCEPT ![id] = "pending"]
     /\ UNCHANGED <<mediaItems, pollVars, deleteVars, filesArray, uploadQueue, concurrent,
                    activeUploads, driver, plan, mergeCase, hist>>

\* Storage accepted the file: progress 100, then getMediaStatus is requested
S3Succeeds(f) ==
  /\ task[f].pc = "s3"
  /\ PlanAllows(f, "s3", TRUE)
  /\ task' = [task EXCEPT ![f].pc = "status"]
  /\ uploads' = ReportProgress(uploads, filesArray[f], 100, task[f].mediaId)
  /\ UNCHANGED <<mediaItems, pollVars, deleteVars, filesArray, uploadQueue, concurrent,
                 activeUploads, driver, plan, server, mergeCase, hist>>

\* setMediaItems((prev) => [...prev, media])
\* (variant: setMediaItems([media]))
InsertMediaAlone(prev, media) == <<media>>

\* (variant: the record is put in twice)
InsertMediaTwice(prev, media) == prev \o <<media, media>>

InsertMedia(prev, media) == Append(prev, media)

\* api.upload resolved with the media: mark processing, insert the record, leave
\* the loop, settle
StatusSucceeds(f) ==
  LET media == StageResponse(task[f].mediaId, server[task[f].mediaId])
  IN /\ task[f].pc = "status"
     /\ PlanAllows(f, "status", TRUE)
     /\ Settle(f, [task EXCEPT ![f].pc = "settled", ![f].success = TRUE],
               MarkProcessing(uploads, filesArray[f], media.id))
     /\ Render(InsertMedia(mediaItems, media), TRUE, pollDelayMs, missingUrlDelayMs)
     /\ UNCHANGED <<roundsA, roundsB, deleteVars, filesArray, plan, server, mergeCase>>

\* The retry loop after a pass that did not succeed: the next pass up to its first
\* await, or the end of the loop, the error state and the settling of the promise
LoopNext(f, t) ==
  IF LoopContinues(t)
  THEN /\ task' = [task EXCEPT ![f] = BeginAttempt(t)]
       /\ uploads' = MarkUploading(uploads, {filesArray[f]})
       /\ UNCHANGED <<uploadQueue, concurrent, activeUploads, driver>>
  ELSE Settle(f, [task EXCEPT ![f] = [t EXCEPT !.pc = "settled"]],
              IF t.success THEN uploads ELSE MarkError(uploads, filesArray[f], t.lastError))

\* A step of api.upload threw: the catch block, then the 800 ms wait or the loop test
AttemptFails(f) ==
  LET step == task[f].pc
      t == [task[f] EXCEPT !.lastError = Some(ErrorAt(step)),
                           !.failures = Append(@, ErrorAt(step))]
  IN /\ step \in {"post", "s3", "status"}
     /\ PlanAllows(f, step, FALSE)
     /\ IF t.attempts < RETRY_LIMIT
        THEN /\ task' = [task EXCEPT ![f] = [t EXCEPT !.pc = "backoff"]]
             /\ UNCHANGED <<uploads, uploadQueue, concurrent, activeUploads, driver>>
        ELSE LoopNext(f, t)
     /\ UNCHANGED <<mediaItems, pollVars, deleteVars, filesArray, plan, server, mergeCase, hist>>

\* The 800 ms wait is over: the loop test
RetryAfterDelay(f) ==
  /\ task[f].pc = "backoff"
  /\ LoopNext(f, task[f])
  /\ UNCHANGED <<mediaItems, pollVars, deleteVars, filesArray, plan, server, mergeCase, hist>>

(***************************************************************************)
(* handleDeleteMedia and the dialog that selects the record                *)
(***************************************************************************)
\* onClick={() => setMediaToDelete(media)}
SelectMedia(i) ==
  /\ mediaToDelete = Undefined
  /\ mediaToDelete' = Some(mediaItems[i].id)
  /\ UNCHANGED <<mediaItems, uploads, pollVars, uploadVars, server, deleting, reported,
                 mergeCase, hist>>

\* handleDeleteMedia up to its await
HandleDeleteMedia ==
  /\ mediaToDelete # Undefined
  /\ hist.deletesLeft > 0
  /\ deleting' = Append(deleting, mediaToDelete[1])
  /\ hist' = [hist EXCEPT !.deletesLeft = @ - 1]
  /\ UNCHANGED <<mediaItems, uploads, pollVars, uploadVars, server, mediaToDelete, reported,
                 mergeCase>>

\* api.deleteMedia resolved: the record is filtered out, the selection cleared
DeleteSucceeds(k) ==
  /\ server[deleting[k]] # "none"
  /\ server' = [server EXCEPT ![deleting[k]] = "none"]
  /\ Render(WithoutId(mediaItems, deleting[k]), TRUE, pollDelayMs, missingUrlDelayMs)
  /\ mediaToDelete' = Undefined
  /\ deleting' = RemoveAt(deleting, k)
  /\ UNCHANGED <<uploads, uploadVars, roundsA, roundsB, reported, mergeCase>>

\* api.deleteMedia rejected: onError, the selection cleared
DeleteFails(k) ==
  /\ reported' = reported \cup {"API error: delete"}
  /\ mediaToDelete' = Undefined
  /\ deleting' = RemoveAt(deleting, k)
  /\ UNCHANGED <<mediaItems, uploads, pollVars, uploadVars, server, mergeCase, hist>>

(***************************************************************************)
(* The backend moves a media id it is processing to a later stage          *)
(***************************************************************************)
KnownIds ==
  ({mediaItems[i].id : i \in 1..Len(mediaItems)} \cup {task[f].mediaId : f \in DOMAIN task})
    \ {EmptyId}

ServerAdvance(id) ==
  /\ \E stage \in StageAfter(server[id]) : server' = [server EXCEPT ![id] = stage]
  /\ UNCHANGED <<mediaItems, uploads, pollVars, uploadVars, deleteVars, mergeCase, hist>>

\* The backend marks a record deleted on a request that did not come from this
\* component; getMediaStatus then reports the status deleted (MediaStatus)
ServerDeletes(id) ==
  /\ server[id] \in {"processing", "readyNoThumb", "ready", "error"}
  /\ server' = [server EXCEPT ![id] = "deleted"]
  /\ UNCHANGED <<mediaItems, uploads, pollVars, uploadVars, deleteVars, mergeCase, hist>>

(***************************************************************************)
(* Initial states: the component after its initial load (fetchAllMediaOnce)*)
(* and the first run of its effects.                                       *)
(***************************************************************************)
FileNames == <<"a.png", "b.png", "c.png", "d.png", "e.png", "f.png", "g.png">>

AllIds ==
  (1..MaxLoaded) \cup (1..MaxPollLoaded) \cup {MediaId(f, a) : f \in 1..Len(FileNames), a \in 1..RETRY_LIMIT}

\* The stages of the records the initial load found, in list order
LoadedStages ==
  UNION {[1..n -> {"processing", "readyNoThumb", "ready"}] : n \in 0..MaxLoaded}

\* A task a finished earlier batch left in uploads
EarlierUploads ==
  {<<>>,
   <<[filename |-> FileNames[1], progress |-> 100, status |-> Some("processing"),
      mediaId |-> 1, error |-> Undefined]>>}

InitWith(stages, earlier, rounds, failures, deletes) ==
  LET items == [i \in 1..Len(stages) |-> StageResponse(i, stages[i])]
  IN /\ mediaItems = items
     /\ server = [id \in AllIds |-> IF id <= Len(stages) THEN stages[id] ELSE "none"]
     /\ uploads = earlier
     /\ pollDelayMs = 2000
     /\ missingUrlDelayMs = 3000
     /\ timerA = EffectPoll1(items, 2000).timer
     /\ timerB = EffectPoll2(items, 3000).timer
     /\ roundsA = <<>>
     /\ roundsB = <<>>
     /\ mediaToDelete = Undefined
     /\ deleting = <<>>
     /\ reported = {}
     /\ filesArray = <<>>
     /\ uploadQueue = <<>>
     /\ concurrent = {}
     /\ activeUploads = {}
     /\ driver = "idle"
     /\ task = <<>>
     /\ plan = <<>>
     /\ hist = [firedA |-> 0, firedB |-> 0, orphan |-> FALSE,
                emptiedA |-> ProcessingMedia(items) = <<>>,
                emptiedB |-> ItemsMissingUrl(items) = <<>>,
                roundsLeft |-> rounds, failuresLeft |-> failures,
                deletesLeft |-> deletes]

Init ==
  /\ \E stages \in LoadedStages : InitWith(stages, <<>>, MaxRounds, MaxPollFailures, MaxDeletes)
  /\ mergeCase = Undefined

\* A batch of n files whose transport outcomes are left open
OpenBatch(n) == [names |-> SubSeq(FileNames, 1, n), script |-> [f \in 1..n |-> <<>>]]

\* A batch of n files, each failing once in the upload-target request and then
\* succeeding
RetryBatch(n) ==
  [names |-> SubSeq(FileNames, 1, n), script |-> [f \in 1..n |-> <<"post", "ok">>]]

UploadStep ==
  \/ \E f \in DOMAIN task : PostSucceeds(f)
  \/ \E f \in DOMAIN task : S3Succeeds(f)
  \/ \E f \in DOMAIN task : StatusSucceeds(f)
  \/ \E f \in DOMAIN task : AttemptFails(f)
  \/ \E f \in DOMAIN task : RetryAfterDelay(f)

PollStep ==
  \/ TimerFireA
  \/ \E k \in DOMAIN roundsA : \E i \in DOMAIN roundsA[k].resp : AnswerA(k, i)
  \/ \E k \in DOMAIN roundsA : CompleteA(k)
  \/ TimerFireB
  \/ \E k \in DOMAIN roundsB : AnswerB(k)
  \/ \E k \in DOMAIN roundsB : NextItemB(k)
  \/ \E k \in DOMAIN roundsB : CompleteB(k)

DeleteStep ==
  \/ \E i \in DOMAIN mediaItems : SelectMedia(i)
  \/ HandleDeleteMedia
  \/ \E k \in DOMAIN deleting : DeleteSucceeds(k)
  \/ \E k \in DOMAIN deleting : DeleteFails(k)

Next ==
  \/ HandleFileUpload(RetryBatch(1).names, RetryBatch(1).script)
  \/ UploadStep
  \/ PollStep
  \/ DeleteStep
  \/ \E id \in KnownIds : ServerAdvance(id)

Spec == Init /\ [][Next]_vars

(***************************************************************************)
(* The upload scheduler alone: one batch, no polling and no deletion       *)
(***************************************************************************)
\* Seven files: 1-5 succeed at once, 6 fails twice in the transfer and then
\* succeeds, 7 fails three times
SevenFiles ==
  [names |-> FileNames,
   script |-> [f \in 1..7 |-> CASE f = 6 -> <<"s3", "s3", "ok">>
                                [] f = 7 -> <<"s3", "s3", "s3">>
                                [] OTHER -> <<"ok">>]]

UploadBatches == {OpenBatch(n) : n \in 1..MaxFiles} \cup {SevenFiles}

InitUpload ==
  /\ \E earlier \in EarlierUploads :
       InitWith(IF earlier = <<>> THEN <<>> ELSE <<"processing">>, earlier, 0, 0, 0)
  /\ mergeCase = Undefined

NextUpload ==
  \/ \E b \in UploadBatches : HandleFileUpload(b.names, b.script)
  \/ UploadStep

SpecUpload == InitUpload /\ [][NextUpload]_vars

(***************************************************************************)
(* The upload scheduler under the assumption that every transport call and *)
(* every 800 ms wait of a started file eventually returns                  *)
(***************************************************************************)
\* Six files: 1-5 fail on every attempt, 6 succeeds at once
SixFiles ==
  [names |-> SubSeq(FileNames, 1, 6),
   script |-> [f \in 1..6 |-> CASE f = 1 -> <<"post", "s3", "status">>
                                [] f \in 2..5 -> <<"post", "post", "post">>
                                [] OTHER -> <<"ok">>]]

FairBatches == {OpenBatch(n) : n \in 1..MaxFiles} \cup {SixFiles}

FileStep(f) ==
  /\ f \in DOMAIN task
  /\ PostSucceeds(f) \/ S3Succeeds(f) \/ StatusSucceeds(f) \/ AttemptFails(f)
       \/ RetryAfterDelay(f)

NextFairUpload ==
  \/ \E b \in FairBatches : HandleFileUpload(b.names, b.script)
  \/ \E f \in 1..Len(FileNames) : FileStep(f)

FairUpload ==
  /\ InitUpload
  /\ [][NextFairUpload]_vars
  /\ \A f \in 1..Len(FileNames) : WF_vars(FileStep(f))

(***************************************************************************)
(* The polling effects alone: loaded records, no upload and no deletion    *)
(* from this component                                                     *)
(***************************************************************************)
PollLoadedStages ==
  UNION {[1..n -> {"processing", "readyNoThumb", "ready"}] : n \in 1..MaxPollLoaded}

InitPoll ==
  /\ \E stages \in PollLoadedStages :
       InitWith(stages, <<>>, MaxPollRounds, MaxPollFailures, 0)
  /\ mergeCase = Undefined

NextPoll ==
  \/ PollStep
  \/ \E id \in KnownIds : ServerAdvance(id)
  \/ \E id \in KnownIds : ServerDeletes(id)

SpecPoll == InitPoll /\ [][NextPoll]_vars

(***************************************************************************)
(* Uploads and polling together, with no bound on the number of rounds,    *)
(* under the assumption that timers fire, that every transport call of an  *)
(* upload returns and that every status request of a round is answered     *)
(***************************************************************************)
InitSync ==
  /\ \E stages \in LoadedStages : InitWith(stages, <<>>, -MaxInFlight, 0, 0)
  /\ mergeCase = Undefined

AnswerStepA == \E k \in DOMAIN roundsA : \E i \in DOMAIN roundsA[k].resp : AnswerA(k, i)

CompleteStepA == \E k \in DOMAIN roundsA : CompleteA(k)

RoundStepB == \E k \in DOMAIN roundsB : AnswerB(k) \/ NextItemB(k) \/ CompleteB(k)

NextSync ==
  \/ HandleFileUpload(RetryBatch(1).names, RetryBatch(1).script)
  \/ UploadStep
  \/ PollStep
  \/ \E id \in KnownIds : ServerAdvance(id)

FairSync ==
  /\ InitSync
  /\ [][NextSync]_vars
  /\ WF_vars(UploadStep)
  /\ WF_vars(TimerFireA) /\ WF_vars(AnswerStepA) /\ WF_vars(CompleteStepA)
  /\ WF_vars(TimerFireB) /\ WF_vars(RoundStepB)

(***************************************************************************)
(* The polling effects alone for a collection of at most one record, with  *)
(* no bound on the number of rounds and status requests that can fail,     *)
(* under the assumption that timers fire and that every status request     *)
(* returns or fails.  A round of Poll #2 has one item here, so its         *)
(* callback never resumes to request a next one.                           *)
(***************************************************************************)
InitFairPoll ==
  /\ \E stages \in LoadedStages : InitWith(stages, <<>>, -MaxInFlight, MaxPollFailures, 0)
  /\ mergeCase = Undefined

SingleRoundStepB == \E k \in DOMAIN roundsB : AnswerB(k) \/ CompleteB(k)

NextFairPoll ==
  \/ TimerFireA
  \/ AnswerStepA
  \/ CompleteStepA
  \/ TimerFireB
  \/ SingleRoundStepB
  \/ \E id \in KnownIds : ServerAdvance(id)

FairPoll ==
  /\ InitFairPoll
  /\ [][NextFairPoll]_vars
  /\ WF_vars(TimerFireA) /\ WF_vars(AnswerStepA) /\ WF_vars(CompleteStepA)
  /\ WF_vars(TimerFireB) /\ WF_vars(SingleRoundStepB)

(***************************************************************************)
(* mergeMediaUpdates alone: a collection, two updates for one of its       *)
(* records, and the collections the merges of the two updates give, one    *)
(* call after the other in both orders                                     *)
(***************************************************************************)
MergedFields == {"status", "url", "thumbnailUrl", "duration", "width", "height"}

\* The value a record from source src (0: the collection, 1, 2: the updates) has
\* in field f when it has one
FieldValue(f, src) ==
  CASE f = "status" -> (CASE src = 0 -> "processing" [] src = 1 -> "ready" [] OTHER -> "error")
    [] f = "url" -> (CASE src = 0 -> "url-0" [] src = 1 -> "url-1" [] OTHER -> "url-2")
    [] f = "thumbnailUrl" -> (CASE src = 0 -> "thumb-0" [] src = 1 -> "thumb-1" [] OTHER -> "thumb-2")
    [] OTHER -> 100 + src

\* A Media whose fields in present have a value
MediaWith(id, present, src) ==
  LET V(f) == IF f \in present THEN Some(FieldValue(f, src)) ELSE Undefined
  IN Media(id, V("status"), V("url"), V("thumbnailUrl"), V("duration"), V("width"),
           V("height"), Undefined)

\* The id of the record the updates are for, and of a record they are not for
TargetId == 2

BystanderId == 1

\* The id of an update for a record the collection does not hold
StrangerId == 3

\* One call with both updates and, between them, an update for a record the
\* collection does not hold
BothUpdates ==
  <<mergeCase.u1, MediaWith(StrangerId, MergedFields, 1), mergeCase.u2>>

InitMerge ==
  /\ InitWith(<<>>, <<>>, 0, 0, 0)
  /\ \E p0 \in SUBSET (MergedFields \ {"status"}), p1 \in SUBSET MergedFields,
        p2 \in SUBSET MergedFields :
       mergeCase = [prev |-> <<StageResponse(BystanderId, "processing"),
                               MediaWith(TargetId, p0 \cup {"status"}, 0)>>,
                    u1 |-> MediaWith(TargetId, p1, 1),
                    u2 |-> MediaWith(TargetId, p2, 2),
                    step |-> 0, m1 |-> <<>>, m2 |-> <<>>, m12 |-> <<>>, m21 |-> <<>>,
                    m11 |-> <<>>, both |-> <<>>, bothTwice |-> <<>>]

\* mergeMediaUpdates([u1]) and mergeMediaUpdates([u2]), each on the collection,
\* and mergeMediaUpdates of both at once
MergeFirst ==
  /\ mergeCase.step = 0
  /\ mergeCase' = [mergeCase EXCEPT
                     !.step = 1,
                     !.both = MergeMediaUpdates(mergeCase.prev, BothUpdates),
                     !.m1 = MergeMediaUpdates(mergeCase.prev, <<mergeCase.u1>>),
                     !.m2 = MergeMediaUpdates(mergeCase.prev, <<mergeCase.u2>>)]
  /\ UNCHANGED <<mediaItems, uploads, pollVars, uploadVars, deleteVars, server, hist>>

\* The other update is merged into each result; the same updates are merged again
MergeSecond ==
  /\ mergeCase.step = 1
  /\ mergeCase' = [mergeCase EXCEPT
                     !.step = 2,
                     !.m11 = MergeMediaUpdates(mergeCase.m1, <<mergeCase.u1>>),
                     !.bothTwice = MergeMediaUpdates(mergeCase.both, BothUpdates),
                     !.m12 = MergeMediaUpdates(mergeCase.m1, <<mergeCase.u2>>),
                     !.m21 = MergeMediaUpdates(mergeCase.m2, <<mergeCase.u1>>)]
  /\ UNCHANGED <<mediaItems, uploads, pollVars, uploadVars, deleteVars, server, hist>>

NextMerge == MergeFirst \/ MergeSecond

SpecMerge == InitMerge /\ [][NextMerge]_vars

(***************************************************************************)
(* Properties of the upload scheduler                                      *)
(***************************************************************************)
\* The upload state of file f of the batch: uploads keeps the earlier tasks first
TaskOf(f) == uploads[Len(uploads) - Len(filesArray) + f]

\* Files whose processUpload has started and has not settled
InFlight == {f \in DOMAIN task : task[f].pc \notin {"queued", "settled"}}

Min(a, b) == IF a < b THEN a ELSE b

\* C1: the number of per-file upload tasks that have started and not finished is
\* never greater than min(MAX_CONCURRENT_UPLOADS, number of files of the batch).
C1_BoundedConcurrency ==
  Cardinality(InFlight) <= Min(MAX_CONCURRENT_UPLOADS, Len(filesArray))

\* C6: no file is attempted more than RETRY_LIMIT times; a file that failed on every
\* attempt was attempted exactly RETRY_LIMIT times and its task then has status error
\* with the non-empty message of its last failure; a file that succeeded on attempt k
\* (after k - 1 failures) was not attempted again.
C6_RetryExhaustion ==
  \A f \in DOMAIN task :
    /\ task[f].attempts <= RETRY_LIMIT
    /\ task[f].success => task[f].pc = "settled" /\ task[f].attempts = Len(task[f].failures) + 1
    /\ (task[f].pc = "settled" /\ ~task[f].success) =>
         /\ task[f].attempts = RETRY_LIMIT
         /\ Len(task[f].failures) = RETRY_LIMIT
         /\ TaskOf(f).status = Some("error")
         /\ TaskOf(f).error = Some(task[f].failures[RETRY_LIMIT])
         /\ TaskOf(f).error # Some("")

\* A file failed three times, at different steps, and its task shows the last failure
C6_Witness ==
  \E f \in DOMAIN task :
    /\ task[f].pc = "settled"
    /\ ~task[f].success
    /\ task[f].failures = <<ErrorAt("post"), ErrorAt("status"), ErrorAt("s3")>>
    /\ TaskOf(f).error = Some(ErrorAt("s3"))

\* C8: for every task of the batch, while its status is uploading the progress
\* values written to it never decrease, and the progress it has when it becomes
\* processing is 100.
C8_ProgressMonotone ==
  [][\A f \in DOMAIN task :
       (f \in DOMAIN task' /\ Len(filesArray) = Len(filesArray')) =>
         /\ (TaskOf(f).status = Some("uploading") /\ TaskOf(f)'.status = Some("uploading"))
              => TaskOf(f)'.progress >= TaskOf(f).progress
         /\ (TaskOf(f).status = Some("uploading") /\ TaskOf(f)'.status = Some("processing"))
              => TaskOf(f).progress = 100]_vars

\* C7: in any batch, whatever files fail on every attempt, every file of the batch
\* is eventually started and its task reaches processing or error.
C7_SiblingsProgress ==
  (filesArray # <<>>) ~>
    (\A f \in DOMAIN task :
       /\ task[f].pc = "settled"
       /\ TaskOf(f).status \in {Some("processing"), Some("error")})

\* Every file of the first pass failed on every attempt, and the file that was
\* queued behind them has reached processing
C7_Witness ==
  /\ Len(filesArray) > MAX_CONCURRENT_UPLOADS
  /\ \A f \in 1..MAX_CONCURRENT_UPLOADS :
       task[f].pc = "settled" /\ ~task[f].success /\ TaskOf(f).status = Some("error")
  /\ \E g \in DOMAIN task :
       g > MAX_CONCURRENT_UPLOADS /\ task[g].success /\ TaskOf(g).status = Some("processing")

(***************************************************************************)
(* Properties of the merge layer                                           *)
(***************************************************************************)
\* The record with this id in a collection that has one
RecordOf(items, id) == items[FindIndex(items, id)]

HasId(items, id) == \E i \in 1..Len(items) : items[i].id = id

\* C4: for a record and two updates for it, u1 with a thumbnailUrl and u2 without,
\* merging u1 then u2 and merging u2 then u1 both leave thumbnailUrl equal to u1's.
C4_ThumbnailOrderIndependent ==
  (/\ mergeCase # Undefined
   /\ mergeCase.step = 2
   /\ ~IsNullish(mergeCase.u1.thumbnailUrl)
   /\ IsNullish(mergeCase.u2.thumbnailUrl)) =>
     /\ RecordOf(mergeCase.m12, TargetId).thumbnailUrl = mergeCase.u1.thumbnailUrl
     /\ RecordOf(mergeCase.m21, TargetId).thumbnailUrl = mergeCase.u1.thumbnailUrl

\* The record had another thumbnailUrl, u2 changes other fields, and both orders
\* end with u1's thumbnailUrl
C4_Witness ==
  /\ mergeCase # Undefined
  /\ mergeCase.step = 2
  /\ ~IsNullish(RecordOf(mergeCase.prev, TargetId).thumbnailUrl)
  /\ ~IsNullish(mergeCase.u1.thumbnailUrl)
  /\ IsNullish(mergeCase.u2.thumbnailUrl)
  /\ ~IsNullish(mergeCase.u2.status)
  /\ RecordOf(mergeCase.m12, TargetId).thumbnailUrl = Some("thumb-1")
  /\ RecordOf(mergeCase.m21, TargetId).thumbnailUrl = Some("thumb-1")
  /\ RecordOf(mergeCase.m12, TargetId).status = mergeCase.u2.status

\* C5: for an existing record and an update with its id, each of status, url,
\* thumbnailUrl, duration, width and height of the merged record is the update's
\* value when the update has one and the existing value otherwise.
C5_PerFieldPresence ==
  (mergeCase # Undefined /\ mergeCase.step >= 1) =>
     \A f \in MergedFields :
       /\ RecordOf(mergeCase.m1, TargetId)[f] =
            IF IsNullish(mergeCase.u1[f]) THEN RecordOf(mergeCase.prev, TargetId)[f]
            ELSE mergeCase.u1[f]
       /\ RecordOf(mergeCase.m2, TargetId)[f] =
            IF IsNullish(mergeCase.u2[f]) THEN RecordOf(mergeCase.prev, TargetId)[f]
            ELSE mergeCase.u2[f]

\* An update that lacks only thumbnailUrl has changed status, width and height and
\* left the thumbnailUrl the record had
C5_Witness ==
  /\ mergeCase # Undefined
  /\ mergeCase.step >= 1
  /\ \A f \in MergedFields : IsNullish(mergeCase.u1[f]) <=> f = "thumbnailUrl"
  /\ RecordOf(mergeCase.prev, TargetId).width = Some(100)
  /\ RecordOf(mergeCase.m1, TargetId).status = Some("ready")
  /\ RecordOf(mergeCase.m1, TargetId).width = Some(101)
  /\ RecordOf(mergeCase.m1, TargetId).height = Some(101)
  /\ RecordOf(mergeCase.m1, TargetId).thumbnailUrl = Some("thumb-0")

(***************************************************************************)
(* Properties of the collection under polling, uploads and deletions       *)
(***************************************************************************)
Present(x) == ~IsNullish(x)

\* C2: once a derived field (url, thumbnailUrl, duration, width, height) of a record
\* of the collection is present, it is present for as long as the record is in the
\* collection, whatever responses either polling loop merges and in whatever order.
C2_MonotonicKnowledge ==
  [][\A i \in 1..Len(mediaItems) :
       HasId(mediaItems', mediaItems[i].id) =>
         \A f \in DerivedFields :
           Present(mediaItems[i][f]) => Present(RecordOf(mediaItems', mediaItems[i].id)[f])]_vars

\* A record that has a url was merged with the response of a failed processing job,
\* which has none: the status changed and the url stayed
C2_Witness ==
  \E i \in 1..Len(mediaItems) :
    /\ mediaItems[i].status = Some("error")
    /\ mediaItems[i].url = Some("url")

\* C3: once the status of a record of the collection is ready or error, no step
\* (in particular no merge of a delayed response) changes it back to pending,
\* uploading or processing.
C3_LifecycleNeverRegresses ==
  [][\A i \in 1..Len(mediaItems) :
       (/\ HasId(mediaItems', mediaItems[i].id)
        /\ mediaItems[i].status \in {Some("ready"), Some("error")}) =>
          RecordOf(mediaItems', mediaItems[i].id).status \notin UnreadyStatus]_vars

\* C9: when the timer of a polling loop fires after the loop's target set has been
\* empty since the loop's previous round began, the delay it was set with is the
\* base delay of the loop: 2000 ms for Poll #1, 3000 ms for Poll #2.
C9_BackoffReset ==
  [][/\ (Len(roundsA') > Len(roundsA) /\ hist.emptiedA) => timerA[1].delay = 2000
     /\ (Len(roundsB') > Len(roundsB) /\ hist.emptiedB) => timerB[1].delay = 3000]_vars

\* The status responses of a round that succeeded
OkResponses(resp) ==
  LET IsOk(x) == x.kind = "ok"
      ok == SelectSeq(resp, IsOk)
  IN [i \in 1..Len(ok) |-> ok[i].media[1]]

\* C10: when a round of either loop ends, every successful status response of the
\* round has been merged into the collection, whether or not another request of
\* the round failed.
C10_RoundFailureIsolation ==
  [][/\ \A k \in DOMAIN roundsA :
          (Len(roundsA') < Len(roundsA) /\ roundsA' = RemoveAt(roundsA, k)) =>
             mediaItems' = MergeMediaUpdates(mediaItems, OkResponses(roundsA[k].resp))
     /\ \A k \in DOMAIN roundsB :
          (Len(roundsB') < Len(roundsB) /\ roundsB' = RemoveAt(roundsB, k)) =>
             mediaItems' = MergeMediaUpdates(mediaItems, CollectB(roundsB[k]))]_vars

\* The elements of a sequence
Range(seq) == {seq[i] : i \in 1..Len(seq)}

\* A round of Poll #1 (of Poll #2) ends in this step, and it is round k
EndsA(k) == Len(roundsA') < Len(roundsA) /\ roundsA' = RemoveAt(roundsA, k)

EndsB(k) == Len(roundsB') < Len(roundsB) /\ roundsB' = RemoveAt(roundsB, k)

\* The record with this id is in the collection before and after the step, with the
\* same fields, and a timer of the loop that is pending afterwards has it as a target
\* if it meets the loop's filter
UntouchedA(id) ==
  HasId(mediaItems, id) =>
    /\ HasId(mediaItems', id)
    /\ RecordOf(mediaItems', id) = RecordOf(mediaItems, id)
    /\ (IsUnready(RecordOf(mediaItems', id)) /\ timerA' # Undefined)
         => id \in Range(timerA'[1].targets)

UntouchedB(id) ==
  HasId(mediaItems, id) =>
    /\ HasId(mediaItems', id)
    /\ RecordOf(mediaItems', id) = RecordOf(mediaItems, id)
    /\ (IsMissingUrl(RecordOf(mediaItems', id)) /\ timerB' # Undefined)
         => id \in Range(timerB'[1].targets)

C12_PollingNeverDeletes ==
  [][\A i \in 1..Len(mediaItems) :
       mediaItems[i].status \in {Some("ready"), Some("error")} =>
         IF HasId(mediaItems', mediaItems[i].id)
         THEN RecordOf(mediaItems', mediaItems[i].id).status = mediaItems[i].status
         ELSE mediaItems[i].id \in Range(deleting)]_vars

(***************************************************************************)
(* Properties of the tasks shown for a batch                               *)
(***************************************************************************)
\* Task i is processing and the backend reports its record ready or error
AwaitsMirror(i) ==
  /\ i \in DOMAIN uploads
  /\ uploads[i].status = Some("processing")
  /\ server[uploads[i].mediaId] \in {"readyNoThumb", "ready", "error"}

\* C13: a task that is processing while the backend reports its record ready or
\* error eventually shows ready or error, when timers fire and status requests are
\* answered.
C13_TasksReachTerminal ==
  \A i \in 1..Len(FileNames) :
    AwaitsMirror(i) ~>
      (i \in DOMAIN uploads /\ uploads[i].status \in {Some("ready"), Some("error")})

\* C14: the status of a task changes only along uploading -> processing -> ready or
\* error (or uploading -> error): a processing task never shows uploading or pending
\* again, and a ready or error task never changes status.
C14_TaskStateOrder ==
  [][\A i \in DOMAIN uploads :
       i \in DOMAIN uploads' =>
         /\ uploads[i].status = Some("uploading") =>
              uploads'[i].status \in {Some("uploading"), Some("processing"), Some("error")}
         /\ uploads[i].status = Some("processing") =>
              uploads'[i].status \in {Some("processing"), Some("ready"), Some("error")}
         /\ uploads[i].status \in {Some("ready"), Some("error")} =>
              uploads'[i].status = uploads[i].status]_vars

\* The files of the batch whose task has this status
BatchTasksIn(status) == {f \in DOMAIN task : TaskOf(f).status = Some(status)}

\* The ids the upload-target requests of the batch can assign
BatchIds == {MediaId(f, a) : f \in 1..Len(FileNames), a \in 1..RETRY_LIMIT}

\* The records of the collection that the batch inserted
InsertedRecords == {i \in 1..Len(mediaItems) : mediaItems[i].id \in BatchIds}

RECURSIVE TotalAttempts(_)
TotalAttempts(n) == IF n = 0 THEN 0 ELSE task[n].attempts + TotalAttempts(n - 1)

\* C15: when handleFileUpload has completed for seven files of which 1-5 succeed at
\* once, 6 fails twice and then succeeds and 7 fails three times, exactly 6 tasks are
\* processing, exactly 6 records were inserted, exactly file 7's task is in error
\* and 11 attempts were made.
C15_SevenFileScenario ==
  (filesArray = SevenFiles.names /\ plan = SevenFiles.script /\ driver = "done") =>
     /\ Cardinality(BatchTasksIn("processing")) = 6
     /\ Cardinality(InsertedRecords) = 6
     /\ BatchTasksIn("error") = {7}
     /\ TotalAttempts(7) = 11

\* The scenario has run to completion: file 6 succeeded at its third attempt and
\* file 7 failed three times
C15_Witness ==
  /\ filesArray = SevenFiles.names /\ plan = SevenFiles.script /\ driver = "done"
  /\ task[6].success /\ task[6].attempts = 3
  /\ ~task[7].success /\ task[7].attempts = 3
  /\ TaskOf(7).error = Some(ErrorAt("s3"))

(***************************************************************************)
(* Algebraic properties of mergeMediaUpdates                               *)
(***************************************************************************)
\* A field both updates have a value for (the values of two updates differ)
Contested == {f \in MergedFields : Present(mergeCase.u1[f]) /\ Present(mergeCase.u2[f])}

\* C16 as stated: for every record and every two updates for it, merging u1 then u2
\* gives the same collection as merging u2 then u1.
C16_MergeCommutative ==
  (mergeCase # Undefined /\ mergeCase.step = 2) => mergeCase.m12 = mergeCase.m21

\* What the code does instead: the two orders agree exactly when no field has a
\* value in both updates; a field that has (different) values in both ends with
\* the value of the update merged last.
LastMergeWins ==
  (mergeCase # Undefined /\ mergeCase.step = 2) =>
     /\ (Contested = {}) <=> (mergeCase.m12 = mergeCase.m21)
     /\ \A f \in Contested :
          /\ RecordOf(mergeCase.m12, TargetId)[f] = mergeCase.u2[f]
          /\ RecordOf(mergeCase.m21, TargetId)[f] = mergeCase.u1[f]

\* C17: merging the same updates a second time changes nothing, for one update and
\* for a list of updates (two for one record and one for a record the collection
\* does not hold).
C17_MergeIdempotent ==
  (mergeCase # Undefined /\ mergeCase.step = 2) =>
     /\ mergeCase.m11 = mergeCase.m1
     /\ mergeCase.bothTwice = mergeCase.both

\* Both updates of the list changed fields of the record, the second overrode a
\* field of the first, and the second merge of the list changed nothing
C17_Witness ==
  /\ mergeCase # Undefined
  /\ mergeCase.step = 2
  /\ "status" \in Contested
  /\ Present(mergeCase.u1.thumbnailUrl) /\ IsNullish(mergeCase.u2.thumbnailUrl)
  /\ RecordOf(mergeCase.both, TargetId).status = mergeCase.u2.status
  /\ RecordOf(mergeCase.both, TargetId).thumbnailUrl = mergeCase.u1.thumbnailUrl
  /\ mergeCase.both # mergeCase.prev
  /\ mergeCase.bothTwice = mergeCase.both

(***************************************************************************)
(* Polling and the target sets                                             *)
(***************************************************************************)
\* C18: a step that issues a status request of Poll #1 (the timer callback starts)
\* is taken only while some record is pending, uploading or processing, and a step
\* that issues a status request of Poll #2 (the timer callback starts, or resumes
\* and requests its next item) only while some record is ready without thumbnail.
C18_NoPollingWhileIdle ==
  [][/\ TimerFireA => ProcessingMedia(mediaItems) # <<>>
     /\ TimerFireB => ItemsMissingUrl(mediaItems) # <<>>
     /\ \A k \in DOMAIN roundsB :
          NextItemB(k) => ItemsMissingUrl(mediaItems) # <<>>]_vars

(***************************************************************************)
(* The end of handleFileUpload                                             *)
(***************************************************************************)
\* C19: when every transport call and every wait eventually returns, the handler of
\* a batch returns (it is never left suspended or abandoned by an exception,
\* whatever attempts fail), and when it has returned the queue is empty, every
\* file's promise has settled and every task is processing or error, none uploading.
C19_BatchCompletion ==
  /\ [](driver = "done" =>
          /\ uploadQueue = <<>>
          /\ activeUploads = {}
          /\ \A f \in DOMAIN task :
               /\ task[f].pc = "settled"
               /\ TaskOf(f).status \in {Some("processing"), Some("error")})
  /\ (driver \in {"race", "join"}) ~> (driver = "done")

\* The handler of a batch that needed two passes has returned; the files of the
\* first pass failed, the last file was started by the second pass and succeeded
C19_Witness ==
  /\ driver = "done"
  /\ Len(filesArray) > MAX_CONCURRENT_UPLOADS
  /\ TaskOf(1).status = Some("error")
  /\ task[1].attempts = RETRY_LIMIT
  /\ TaskOf(Len(filesArray)).status = Some("processing")

(***************************************************************************)
(* The upload scheduler and the collection                                 *)
(***************************************************************************)
\* C20: the step of the upload scheduler that inserts the record of a finished
\* upload puts one record at the end of the collection and leaves every record
\* that was in it as it was; every other step of the scheduler (starting a batch,
\* a progress report, a failed attempt, a retry, marking a task error) leaves the
\* collection unchanged.
C20_SingleWriter ==
  [][/\ (\E f \in DOMAIN task : StatusSucceeds(f)) =>
          /\ Len(mediaItems') = Len(mediaItems) + 1
          /\ \A i \in DOMAIN mediaItems : mediaItems'[i] = mediaItems[i]
          /\ \E f \in DOMAIN task : mediaItems'[Len(mediaItems')].id = task[f].mediaId
     /\ (\/ HandleFileUpload(RetryBatch(1).names, RetryBatch(1).script)
         \/ \E f \in DOMAIN task :
              PostSucceeds(f) \/ S3Succeeds(f) \/ AttemptFails(f) \/ RetryAfterDelay(f))
          => mediaItems' = mediaItems]_vars

\* The record of an upload that succeeded on its second attempt stands behind the
\* loaded record, which is as the initial load left it
C20_Witness ==
  /\ Len(mediaItems) = 2
  /\ \E stage \in {"processing", "readyNoThumb", "ready"} :
       mediaItems[1] = StageResponse(1, stage)
  /\ task # <<>>
  /\ task[1].success /\ task[1].attempts = 2
  /\ mediaItems[2].id = task[1].mediaId
  /\ hist.roundsLeft = MaxRounds

(***************************************************************************)
(* Membership and order of the collection                                  *)
(***************************************************************************)
\* The elements of a sequence that are in a set, in the order of the sequence
Kept(seq, set) == SelectSeq(seq, LAMBDA x : x \in set)

\* C21: in every step the records that stay keep their order; a record leaves the
\* collection only in the step in which the deletion request for it succeeds; the
\* merge that ends a poll round leaves the sequence of ids as it was; a step of the
\* upload scheduler leaves it as it was or puts one new id at its end.
C21_RemovalOnlyByDeletion ==
  [][LET before == Ids(mediaItems)
         after == Ids(mediaItems')
         gone == Range(before) \ Range(after)
     IN /\ Kept(after, Range(before)) = Kept(before, Range(after))
        /\ gone # {} => \E k \in DOMAIN deleting : DeleteSucceeds(k) /\ gone = {deleting[k]}
        /\ (\E k \in DOMAIN roundsA : EndsA(k)) => after = before
        /\ (\E k \in DOMAIN roundsB : EndsB(k)) => after = before
        /\ (UploadStep \/ HandleFileUpload(RetryBatch(1).names, RetryBatch(1).script))
             => \/ after = before
                \/ \E id \in AllIds \ Range(before) : after = Append(before, id)]_vars

\* The loaded record and, behind it, the record of the upload, after both poll
\* rounds of the behaviour have merged their responses into the second record
C21_Witness ==
  /\ Len(mediaItems) = 2
  /\ mediaItems[1].id = 1
  /\ task # <<>> /\ mediaItems[2].id = task[1].mediaId
  /\ hist.roundsLeft = 0 /\ roundsA = <<>> /\ roundsB = <<>>
  /\ pollDelayMs = 2000 /\ missingUrlDelayMs = 3000
  /\ mediaItems[2].status = Some("ready") /\ Present(mediaItems[2].thumbnailUrl)
  /\ mediaItems[1].status = Some("ready") /\ Present(mediaItems[1].thumbnailUrl)

(***************************************************************************)
(* The error message of a status response                                  *)
(***************************************************************************)
\* The update reports the status error with a message, and the record it is for is
\* in the collection after the step with the status error and that message
ErrorApplied(upd) ==
  (upd.status = Some("error") /\ Present(upd.error) /\ HasId(mediaItems', upd.id)) =>
     /\ RecordOf(mediaItems', upd.id).status = Some("error")
     /\ RecordOf(mediaItems', upd.id).error = upd.error

\* C22: when the merge that ends a poll round is given an update that reports the
\* status error together with an error message, the record has afterwards the
\* status error and that message as its error.
C22_MergeAppliesErrorMessage ==
  [][/\ \A k \in DOMAIN roundsA :
          EndsA(k) => \A i \in DOMAIN RoundUpdatesA(roundsA[k]) :
                        ErrorApplied(RoundUpdatesA(roundsA[k])[i])
     /\ \A k \in DOMAIN roundsB :
          EndsB(k) => \A i \in DOMAIN CollectB(roundsB[k]) :
                        ErrorApplied(CollectB(roundsB[k])[i])]_vars

(***************************************************************************)
(* The delay sequence                                                      *)
(***************************************************************************)
RECURSIVE Doubled(_, _)
\* base * 2^(k-1), cut off above the ceiling
Doubled(base, k) ==
  IF k <= 1 \/ base >= 30000 THEN base ELSE Doubled(2 * base, k - 1)

ExpectedDelay(base, k) == Min(Doubled(base, k), 30000)

\* C23: the timer whose callback starts the k-th round of a loop since the loop's
\* target set was last empty was set with the delay min(base * 2^(k-1), 30000),
\* base 2000 for Poll #1 and 3000 for Poll #2; no delay is below the base or above
\* 30000.
C23_DelaySequence ==
  /\ [][/\ TimerFireA => timerA[1].delay = ExpectedDelay(2000, hist.firedA + 1)
        /\ TimerFireB => timerB[1].delay = ExpectedDelay(3000, hist.firedB + 1)]_vars
  /\ [](pollDelayMs \in 2000..30000 /\ missingUrlDelayMs \in 3000..30000)

(***************************************************************************)
(* The records a batch inserts                                             *)
(***************************************************************************)
\* The positions of the collection that hold a record with an id that an
\* upload-target request for file f was given
RecordsOf(f) ==
  {i \in 1..Len(mediaItems) : mediaItems[i].id \in {MediaId(f, a) : a \in 1..RETRY_LIMIT}}

\* C24: for every file of a batch the collection holds one record once an attempt
\* of the file has succeeded, with the media id the upload-target request of that
\* attempt was given, and no record as long as no attempt has succeeded.
C24_RecordCreation ==
  \A f \in DOMAIN task :
    /\ task[f].success =>
         /\ Cardinality(RecordsOf(f)) = 1
         /\ \A i \in RecordsOf(f) :
              /\ mediaItems[i].id = MediaId(f, task[f].attempts)
              /\ mediaItems[i].id = task[f].mediaId
    /\ ~task[f].success => RecordsOf(f) = {}

\* The two failed attempts of file 6 were given media ids, its record has the id of
\* the third; the attempts of file 7 were given media ids and it has no record
C24_Witness ==
  /\ filesArray = SevenFiles.names /\ plan = SevenFiles.script
  /\ \A f \in DOMAIN task : task[f].pc = "settled"
  /\ server[MediaId(6, 1)] # "none" /\ server[MediaId(6, 2)] # "none"
  /\ \E i \in 1..Len(mediaItems) : mediaItems[i].id = MediaId(6, 3)
  /\ server[MediaId(7, 3)] # "none"
  /\ RecordsOf(7) = {}
  /\ Len(mediaItems) = 6

(***************************************************************************)
(* Deletion                                                                *)
(***************************************************************************)
\* C25: the step in which the backend delete call succeeds takes the selected
\* record, and no other, out of the collection and reports nothing; the step in
\* which it fails leaves the collection as it was and reports the failure; both
\* clear the selection.  Starting the call changes neither the collection nor the
\* selection, and as long as a call is awaited its record is in the collection,
\* unless the backend has deleted it on another call for the same record.
C25_Deletion ==
  /\ [][/\ \A k \in DOMAIN deleting :
             DeleteSucceeds(k) =>
               /\ server[deleting[k]] # "none" /\ server'[deleting[k]] = "none"
               /\ ~HasId(mediaItems', deleting[k])
               /\ Len(mediaItems') = Len(mediaItems) - 1
               /\ Range(mediaItems') = {m \in Range(mediaItems) : m.id # deleting[k]}
               /\ reported' = reported
               /\ mediaToDelete' = Undefined
        /\ \A k \in DOMAIN deleting :
             DeleteFails(k) =>
               /\ mediaItems' = mediaItems
               /\ reported' # {} /\ reported' = reported \cup {"API error: delete"}
               /\ mediaToDelete' = Undefined
        /\ HandleDeleteMedia => (mediaItems' = mediaItems /\ mediaToDelete' = mediaToDelete)]_vars
  /\ [](\A k \in DOMAIN deleting :
          HasId(mediaItems, deleting[k]) \/ server[deleting[k]] = "none")

\* The loaded record was deleted: the backend no longer has it, the record of the
\* upload is all the collection holds, nothing was reported and nothing is selected
C25_Witness ==
  /\ hist.deletesLeft = 0 /\ deleting = <<>>
  /\ server[1] = "none"
  /\ Len(mediaItems) = 1 /\ task # <<>> /\ mediaItems[1].id = task[1].mediaId
  /\ reported = {}
  /\ mediaToDelete = Undefined

(***************************************************************************)
(* The tasks of other files                                                *)
(***************************************************************************)
\* The position in uploads of the task of file f of the batch
TaskIndex(f) == Len(uploads) - Len(filesArray) + f

\* C26: a step of processUpload for file f (progress report, status or error
\* update) changes no task other than that of f, and the start of a batch changes
\* no task that uploads already lists.
C26_TaskIsolation ==
  [][/\ \A f \in DOMAIN task :
          (PostSucceeds(f) \/ S3Succeeds(f) \/ StatusSucceeds(f) \/ AttemptFails(f)
             \/ RetryAfterDelay(f))
            => \A i \in DOMAIN uploads : i # TaskIndex(f) => uploads'[i] = uploads[i]
     /\ (driver = "idle" /\ driver' # "idle")
            => \A i \in DOMAIN uploads : uploads'[i] = uploads[i]]_vars

(***************************************************************************)
(* Rounds in flight                                                        *)
(***************************************************************************)
\* A round of Poll #1 (of Poll #2) that has status requests it has not got the
\* response of, or has yet to issue
AwaitingA == {k \in DOMAIN roundsA : \E i \in DOMAIN roundsA[k].resp : roundsA[k].resp[i].kind = "wait"}

AwaitingB ==
  {k \in DOMAIN roundsB : roundsB[k].cur.kind = "wait" \/ roundsB[k].idx < Len(roundsB[k].targets)}

\* C27: the timer callback of a loop starts a round only when no earlier round of
\* the same loop is still awaiting responses.
C27_OneRoundInFlight ==
  [][/\ TimerFireA => AwaitingA = {}
     /\ TimerFireB => AwaitingB = {}]_vars

(***************************************************************************)
(* Responses for a record that was deleted                                 *)
(***************************************************************************)
\* The merge of these updates left the ids of the collection as they were and
\* changed no record that none of the updates is for
OnlyTheirRecords(updates) ==
  /\ Ids(mediaItems') = Ids(mediaItems)
  /\ \A j \in 1..Len(mediaItems) :
       (\A i \in 1..Len(updates) : updates[i].id # mediaItems[j].id)
         => mediaItems'[j] = mediaItems[j]

\* C28: when the merge that ends a round of either loop is given the response for
\* a record that handleDeleteMedia has removed, the record is not in the collection
\* afterwards and no record that the round has no response for is changed.
C28_NoResurrection ==
  [][/\ \A k \in DOMAIN roundsA :
          EndsA(k) => /\ OnlyTheirRecords(RoundUpdatesA(roundsA[k]))
                      /\ \A id \in Range(roundsA[k].targets) :
                           server[id] = "none" => ~HasId(mediaItems', id)
     /\ \A k \in DOMAIN roundsB :
          EndsB(k) => /\ OnlyTheirRecords(CollectB(roundsB[k]))
                      /\ \A id \in Range(roundsB[k].targets) :
                           server[id] = "none" => ~HasId(mediaItems', id)]_vars

\* The loaded record was deleted while a response for it was awaiting its merge;
\* the merge has taken place, and the collection holds the record of the upload only
C28_Witness ==
  /\ hist.orphan
  /\ hist.deletesLeft = 0 /\ deleting = <<>> /\ server[1] = "none"
  /\ roundsA = <<>> /\ roundsB = <<>>
  /\ Len(mediaItems) = 1 /\ mediaItems[1].id # 1

(***************************************************************************)
(* Transfers to storage                                                    *)
(***************************************************************************)
\* The attempts of file f whose transfer to storage succeeded: those that failed
\* afterwards, in the status request, and the one that is past its transfer now
Transfers(f) ==
  Cardinality({a \in 1..Len(task[f].failures) : task[f].failures[a] = ErrorAt("status")})
    + (IF task[f].pc = "status" \/ task[f].success THEN 1 ELSE 0)

\* C29: for every file of a batch, at most one attempt has transferred the file to
\* storage (so at most one media id has the file's content).
C29_OneTransferPerFile ==
  \A f \in DOMAIN task : Transfers(f) <= 1

(***************************************************************************)
(* Progress of the polling loops                                           *)
(***************************************************************************)
\* The record with this id is in the target set of Poll #1 (of Poll #2)
TargetOfA(id) == HasId(mediaItems, id) /\ IsUnready(RecordOf(mediaItems, id))

TargetOfB(id) == HasId(mediaItems, id) /\ IsMissingUrl(RecordOf(mediaItems, id))

\* A round of Poll #1 (of Poll #2) has a status request for the id under way
RequestedByA(id) ==
  \E k \in DOMAIN roundsA :
    \E i \in DOMAIN roundsA[k].resp :
      roundsA[k].targets[i] = id /\ roundsA[k].resp[i].kind = "wait"

RequestedByB(id) ==
  \E k \in DOMAIN roundsB :
    roundsB[k].targets[roundsB[k].idx] = id /\ roundsB[k].cur.kind = "wait"

\* C30: with no insertion and no deletion, whenever a record is in the target set
\* of a loop, the loop later has a status request for it under way, unless the
\* record leaves the target set.
C30_NoStarvation ==
  \A id \in 1..MaxLoaded :
    /\ TargetOfA(id) ~> (RequestedByA(id) \/ ~TargetOfA(id))
    /\ TargetOfB(id) ~> (RequestedByB(id) \/ ~TargetOfB(id))

====
